---- MODULE Spec2Model ----
(***************************************************************************)
(* Model of the Instantly.ai campaign dashboard (src/app.py) and of the    *)
(* bulk lead uploader (src/instantly_client.py).                           *)
(*                                                                         *)
(* One request handler (or one uploader run) executes at a time: the       *)
(* program is single-threaded and synchronous.  Every call the program     *)
(* makes to the upstream service is one step; the upstream answers         *)
(* nondeterministically (a response drawn from a small set, or an error).  *)
(*                                                                         *)
(* JSON objects are functions from a subset of their keys: a key that is   *)
(* missing from the object is missing from the DOMAIN.  Strings that the   *)
(* program inspects character by character (company names, keywords) are  *)
(* sequences of one-character strings; all other strings are atoms.        *)
(* Upstream objects are typed as in the data model: a field, when present, *)
(* holds a string (email, company_name, name, id) or an integer (status).  *)
(***************************************************************************)
EXTENDS Integers, Sequences, FiniteSets, TLC

(***************************************************************************)
(* State                                                                   *)
(***************************************************************************)
VARIABLES
  api_key_set,     \* INSTANTLY_API_KEY is in the environment
  pc,              \* position of the running handler or script
  op,              \* the running handler or script
  args,            \* the query arguments of the request, the arguments of the script
  requests,        \* the HTTP requests sent to the upstream so far, in order
  raised,          \* the exception that left the last _make_request call, or "none"
  pages,           \* the item lists of the leads/list responses received, in order
  all_leads,       \* get_all_campaign_leads: all_leads
  skip,            \* get_all_campaign_leads: skip
  campaign,        \* campaign_stats, upload_leads_from_json: campaign
  clinic_leads,    \* the value filter_clinic_leads returned to the handler
  file_leads,      \* upload_leads_from_json: leads
  campaigns,       \* upload_leads_from_json: campaigns
  formatted_leads, \* upload_leads_from_json: formatted_leads
  idx,             \* upload_leads_from_json: the number of leads the loop is done with
  total_uploaded,  \* upload_leads_from_json: total_uploaded
  failed,          \* upload_leads_from_json: failed
  result           \* the response of the handler, the outcome of the script

(***************************************************************************)
(* Bounds of the model                                                     *)
(***************************************************************************)
\* longest first response that is drawn element by element from LeadPool
MaxShort == 2
\* number of responses of at least PageSize items the upstream gives to one drain
MaxFullPages == 2
\* the page and per_page query arguments range over -MaxArg..MaxArg
MaxArg == 1
\* number of records in the uploader's input file
MaxFileLeads == 3
\* number of campaigns the upstream lists
MaxCampaigns == 1
\* size of the short page of the worked example (pages of 100, 100 and 37)
ExampleShort == 37

(***************************************************************************)
(* Program constants                                                       *)
(***************************************************************************)
CAMPAIGN_ID == "bfe30fd9-3417-410f-800b-7b8e7151a965"
\* 'limit': 100, skip += 100, len(response['items']) < 100
PageSize == 100
\* request.args.get('page', 1)
DefaultPage == 1
\* request.args.get('per_page', 20)
DefaultPerPage == 20
NoEmail == "No email"
NoCompany == <<"N","o"," ","c","o","m","p","a","n","y">>

CLINIC_KEYWORDS ==
  << <<"c","l","i","n","i","c">>,
     <<"m","e","d","i","c","i","n","e">>,
     <<"w","e","l","l","n","e","s","s">>,
     <<"h","e","a","l","t","h">>,
     <<"n","a","t","u","r","o","p","a","t","h","i","c">>,
     <<"i","n","t","e","g","r","a","t","i","v","e">>,
     <<"h","o","l","i","s","t","i","c">>,
     <<"d","o","c","t","o","r">>,
     <<"d","r",".">>,
     <<"m","e","d","i","c","a","l">> >>

(***************************************************************************)
(* Python primitives                                                       *)
(***************************************************************************)
Range(s) == {s[i] : i \in 1..Len(s)}

\* dict.get(key, default)
Get(d, k, default) == IF k \in DOMAIN d THEN d[k] ELSE default

\* dict.get(key) == value, where a missing key gives None, equal to no value
GetIs(d, k, v) == k \in DOMAIN d /\ d[k] = v

UpperCase == <<"A","B","C","D","E","F","G","H","I","J","K","L","M",
               "N","O","P","Q","R","S","T","U","V","W","X","Y","Z">>
LowerCase == <<"a","b","c","d","e","f","g","h","i","j","k","l","m",
               "n","o","p","q","r","s","t","u","v","w","x","y","z">>

\* str.lower(), on ASCII text
LowerOf == [c \in Range(UpperCase) |->
              LowerCase[CHOOSE i \in 1..Len(UpperCase) : UpperCase[i] = c]]

lower_char(c) == IF c \in DOMAIN LowerOf THEN LowerOf[c] ELSE c

lower(s) == [i \in 1..Len(s) |-> lower_char(s[i])]

\* kw in s, on strings
str_contains(kw, s) ==
  \E i \in 0..(Len(s) - Len(kw)) : SubSeq(s, i + 1, i + Len(kw)) = kw

\* a // b, Python's floor division, b # 0
floor_div(a, b) == IF b > 0 THEN a \div b ELSE (-a) \div (-b)

\* the index Python's slice uses for the bound i of a list of length n
slice_index(i, n) ==
  IF i < 0 THEN (IF i + n < 0 THEN 0 ELSE i + n)
  ELSE (IF i > n THEN n ELSE i)

\* s[start:end]
py_slice(s, start, end) ==
  LET a == slice_index(start, Len(s))
      b == slice_index(end, Len(s))
  IN  IF a < b THEN SubSeq(s, a + 1, b) ELSE <<>>

(***************************************************************************)
(* The upstream service: the objects it can answer with                    *)
(***************************************************************************)
A_X == "a@x.io"
B_X == "b@x.io"

LeadPool ==
  << [email |-> A_X, company_name |-> <<"W","E","L","L","n","e","s","s">>, status |-> 1],
     [email |-> A_X, company_name |-> <<"A","c","m","e">>, status |-> 0],
     [email |-> NoEmail, company_name |-> <<"D","r","."," ","R","o","e">>, status |-> 1],
     [email |-> "", company_name |-> <<"C","l","i","n","i","c">>, status |-> 0],
     [email |-> B_X, company_name |-> <<"m","e","d","i","c","a","l">>, status |-> 0],
     [company_name |-> <<"H","e","a","l","t","h"," ","s","p","a">>] >>

\* a page of n leads, cycling through the pool
PatternPage(n) == [i \in 1..n |-> LeadPool[((i - 1) % Len(LeadPool)) + 1]]

\* the pages of fewer than PageSize leads, after nfull pages of PageSize leads
ShortPages(nfull) ==
  UNION {[1..n -> Range(LeadPool)] : n \in 0..(IF nfull = 0 THEN MaxShort ELSE 0)}
    \cup {PatternPage(ExampleShort)}

FullPages(nfull) == IF nfull < MaxFullPages THEN {PatternPage(PageSize)} ELSE {}

\* the bodies of the answers to POST leads/list; <<>> is a body without 'items'
ListResponses(nfull) ==
  {[items |-> p] : p \in ShortPages(nfull) \cup FullPages(nfull)} \cup {<<>>}

\* the bodies of the answers to GET campaigns/{id}
CampaignResponses ==
  { [name |-> "Spring outreach", status |-> 1, daily_limit |-> 30],
    [name |-> "Spring outreach", status |-> 0],
    <<>> }

(***************************************************************************)
(* InstantlyClient._make_request                                           *)
(***************************************************************************)
\* the methods for which _make_request performs an HTTP call; for any other
\* method no branch assigns `response` and response.raise_for_status() raises
\* UnboundLocalError before anything is sent
SupportedMethods == {"GET", "POST", "PUT", "DELETE"}

sends_request(method) == method \in SupportedMethods

Request(method, endpoint, data) ==
  [method |-> method, endpoint |-> endpoint, data |-> data]

\* the requests on the wire after _make_request(method, endpoint, data)
sent(log, method, endpoint, data) ==
  IF sends_request(method) THEN Append(log, Request(method, endpoint, data)) ELSE log

(***************************************************************************)
(* filter_clinic_leads                                                     *)
(***************************************************************************)
\* the predicate without the test against the sentinel
is_clinic_lead_no_sentinel(l) ==
  /\ "email" \in DOMAIN l
  /\ l.email # ""
  /\ \E k \in 1..Len(CLINIC_KEYWORDS) :
        str_contains(CLINIC_KEYWORDS[k], lower(Get(l, "company_name", <<>>)))

is_clinic_lead(l) ==
  /\ "email" \in DOMAIN l
  /\ l.email # ""
  /\ l.email # NoEmail
  /\ \E k \in 1..Len(CLINIC_KEYWORDS) :
        str_contains(CLINIC_KEYWORDS[k], lower(Get(l, "company_name", <<>>)))

filter_clinic_leads(leads) == SelectSeq(leads, is_clinic_lead)

(***************************************************************************)
(* campaign_leads: view selection, pagination and shaping                  *)
(***************************************************************************)
\* {l.get('email') for l in clinic_leads}: every clinic lead has an email
email_set(clinic) == {clinic[i].email : i \in 1..Len(clinic)}

\* the test with l['email'] in the place of l.get('email'), a missing email skipped
not_in_emails_present(l, clinic_emails) ==
  "email" \in DOMAIN l /\ l.email \notin clinic_emails

\* l.get('email') not in clinic_emails; a missing email is None, in no set of emails
not_in_emails(l, clinic_emails) == ~ ("email" \in DOMAIN l /\ l.email \in clinic_emails)

other_leads(leads, clinic) ==
  LET clinic_emails == email_set(clinic)
      other(l) == not_in_emails(l, clinic_emails)
  IN  SelectSeq(leads, other)

select_leads(filter_type, leads) ==
  IF filter_type = "clinics" THEN filter_clinic_leads(leads)
  ELSE IF filter_type = "other" THEN other_leads(leads, filter_clinic_leads(leads))
  ELSE leads

display(l) ==
  [email |-> Get(l, "email", NoEmail),
   company |-> Get(l, "company_name", NoCompany),
   status |-> IF GetIs(l, "status", 1) THEN "Active" ELSE "Pending",
   custom_fields |-> [website |-> Get(l, "website", ""), phone |-> Get(l, "phone", "")]]

\* the texts int() accepts, among the query arguments of the model
IntTexts == {ToString(i) : i \in (-MaxArg)..MaxArg}

is_int_text(s) == s \in IntTexts

\* int(s)
int(s) == CHOOSE i \in (-MaxArg)..MaxArg : ToString(i) = s

page_of(a) == IF "page" \in DOMAIN a THEN int(a.page) ELSE DefaultPage

per_page_of(a) == IF "per_page" \in DOMAIN a THEN int(a.per_page) ELSE DefaultPerPage

filter_of(a) == Get(a, "filter", "clinics")

\* int() raises ValueError on one of the two arguments
args_raise(a) ==
  \/ "page" \in DOMAIN a /\ ~ is_int_text(a.page)
  \/ "per_page" \in DOMAIN a /\ ~ is_int_text(a.per_page)

page_count(total, per_page) == floor_div(total + per_page - 1, per_page)

page_slice(leads, page, per_page) ==
  LET start == (page - 1) * per_page
      end == start + per_page
  IN  py_slice(leads, start, end)

\* the response of campaign_leads once the drain has returned leads
leads_response(a, leads) ==
  LET page == page_of(a)
      per_page == per_page_of(a)
      view == select_leads(filter_of(a), leads)
      total == Len(view)
      page_leads == page_slice(view, page, per_page)
  IN  IF per_page = 0
      THEN [status |-> 500, error |-> "ZeroDivisionError"]
      ELSE [status |-> 200,
            leads |-> [i \in 1..Len(page_leads) |-> display(page_leads[i])],
            pagination |-> [page |-> page, per_page |-> per_page, total |-> total,
                            pages |-> page_count(total, per_page)]]

(***************************************************************************)
(* campaign_stats                                                          *)
(***************************************************************************)
DefaultCampaign == [name |-> "WA Integrative Medicine", status |-> 0, daily_limit |-> 50]

count_status(leads, s) ==
  LET p(l) == GetIs(l, "status", s) IN Len(SelectSeq(leads, p))

\* the status counts taken over all the leads, not over the clinic leads
stats_of_all(leads, clinic) ==
  [total_leads |-> Len(leads),
   clinic_leads |-> Len(clinic),
   other_leads |-> Len(leads) - Len(clinic),
   active_leads |-> count_status(leads, 1),
   pending_leads |-> count_status(leads, 0)]

stats_of(leads, clinic) ==
  [total_leads |-> Len(leads),
   clinic_leads |-> Len(clinic),
   other_leads |-> Len(leads) - Len(clinic),
   active_leads |-> count_status(clinic, 1),
   pending_leads |-> count_status(clinic, 0)]

stats_response(c, leads) ==
  [status |-> 200,
   campaign |-> [name |-> Get(c, "name", "WA Integrative Medicine"),
                 id |-> CAMPAIGN_ID,
                 status |-> IF GetIs(c, "status", 1) THEN "Active" ELSE "Paused",
                 daily_limit |-> Get(c, "daily_limit", 50)],
   stats |-> stats_of(leads, filter_clinic_leads(leads))]

(***************************************************************************)
(* InstantlyClient.format_lead_for_instantly and the uploader's summary    *)
(***************************************************************************)
\* {k: v for k, v in d.items() if v}, on string values
drop_empty(d) == [k \in {k \in DOMAIN d : d[k] # ""} |-> d[k]]

format_lead_for_instantly(lead) ==
  drop_empty(
    [email |-> Get(lead, "primary_email", ""),
     company_name |-> Get(lead, "title", ""),
     website |-> Get(lead, "website", ""),
     phone |-> Get(lead, "phone", ""),
     custom_field_1 |-> Get(lead, "address", ""),
     custom_field_2 |-> Get(lead, "category", ""),
     custom_field_3 |-> Get(lead, "rating", "") \o " (" \o Get(lead, "reviewCount", "")
                          \o " reviews)",
     custom_field_4 |-> Get(lead, "city", ""),
     custom_field_5 |-> Get(lead, "state", "")])

\* l.get('primary_email')
has_primary_email(l) == "primary_email" \in DOMAIN l /\ l.primary_email # ""

with_emails(leads) == SelectSeq(leads, has_primary_email)

\* d[k] = v
put(d, k, v) == [x \in DOMAIN d \cup {k} |-> IF x = k THEN v ELSE d[x]]

\* round(n / d) to the nearest integer, a tie to the even one, as the float
\* formatting does; n >= 0, d > 0
round_div(n, d) ==
  LET q == n \div d
      r == n % d
  IN  IF 2 * r < d THEN q
      ELSE IF 2 * r > d THEN q + 1
      ELSE IF q % 2 = 0 THEN q ELSE q + 1

\* f"{(uploaded / eligible * 100):.1f}%"
success_rate(uploaded, eligible) ==
  LET tenths == round_div(uploaded * 1000, eligible)
  IN  ToString(tenths \div 10) \o "." \o ToString(tenths % 10) \o "%"

\* the rate taken over all the records of the file, not over the eligible ones
upload_summary_all(c, leads, uploaded) ==
  [campaign |-> c,
   total_leads |-> Len(leads),
   uploaded |-> uploaded,
   success_rate |-> success_rate(uploaded, Len(leads))]

upload_summary(c, leads, uploaded) ==
  [campaign |-> c,
   total_leads |-> Len(leads),
   uploaded |-> uploaded,
   success_rate |-> success_rate(uploaded, Len(with_emails(leads)))]

\* response.get('data', []) if isinstance(response, dict) else response
campaigns_of(response) ==
  IF response.is_dict THEN Get(response.body, "data", <<>>) ELSE response.body

\* the first campaign of the list with the name, <<>> (None) without one
\* the loop without its test of the name: the first campaign listed is used
find_campaign_unnamed(cs, name) == IF cs # <<>> THEN cs[1] ELSE <<>>

find_campaign(cs, name) ==
  IF \E k \in 1..Len(cs) : GetIs(cs[k], "name", name)
  THEN cs[CHOOSE k \in 1..Len(cs) :
            /\ GetIs(cs[k], "name", name)
            /\ \A j \in 1..(k - 1) : ~ GetIs(cs[j], "name", name)]
  ELSE <<>>

(***************************************************************************)
(* The uploader's inputs and the upstream's campaigns                      *)
(***************************************************************************)
FileLeadPool ==
  { [primary_email |-> A_X, title |-> "Evergreen Wellness", rating |-> "4.5",
     reviewCount |-> "12", city |-> "Tacoma"],
    [title |-> "No Mail Clinic", phone |-> "555-0100"],
    [primary_email |-> "", title |-> "Empty Mail Clinic"],
    [primary_email |-> B_X] }

\* the contents of the JSON file
Files == UNION {[1..n -> FileLeadPool] : n \in 0..MaxFileLeads}

\* the campaign_name argument of the upload
CampaignNames == {"Clinics"}

CampaignPool ==
  { [name |-> "Clinics", id |-> "id-1"],
    [name |-> "Clinics", id |-> "id-2"],
    [name |-> "clinics", id |-> "id-3"] }

CampaignLists == UNION {[1..n -> CampaignPool] : n \in 0..MaxCampaigns}

\* the bodies of the answers to GET campaigns: an envelope, a bare list, or
\* an object without 'data'
CampaignsResponses ==
  {[is_dict |-> TRUE, body |-> [data |-> cs]] : cs \in CampaignLists}
    \cup {[is_dict |-> FALSE, body |-> cs] : cs \in CampaignLists}
    \cup {[is_dict |-> TRUE, body |-> <<>>]}

\* the body of the answer to POST campaigns
CreatedCampaign(name) == [name |-> name, id |-> "id-new"]

drain_vars == <<pages, all_leads, skip, clinic_leads>>
upload_vars == <<file_leads, campaigns, formatted_leads, idx, total_uploaded, failed>>

vars == <<api_key_set, pc, op, args, requests, raised, pages, all_leads, skip,
          campaign, clinic_leads, file_leads, campaigns, formatted_leads, idx,
          total_uploaded,
          failed, result>>

NoResult == [status |-> 0]
Raised500(e) == [status |-> 500, error |-> e]
\* the script ends with an uncaught exception
Uncaught(e) == [status |-> 0, uncaught |-> e]
\* the script ends with the value upload_leads_from_json returned
Returned(v) == [status |-> 0, returned |-> v]

Init ==
  /\ api_key_set \in BOOLEAN
  /\ pc = "idle"
  /\ op = "none"
  /\ args = <<>>
  /\ requests = <<>>
  /\ raised = "none"
  /\ pages = <<>>
  /\ all_leads = <<>>
  /\ skip = 0
  /\ campaign = <<>>
  /\ clinic_leads = <<>>
  /\ file_leads = <<>>
  /\ campaigns = <<>>
  /\ formatted_leads = <<>>
  /\ idx = 0
  /\ total_uploaded = 0
  /\ failed = 0
  /\ result = NoResult

\* the exception that leaves _make_request(method, ...) when the upstream's
\* disposition is outcome ("ok" or "error"), "none" when it returns
make_request_raises(method, outcome) ==
  IF ~ sends_request(method) THEN "UnboundLocalError"
  ELSE IF outcome = "error" THEN "RequestException"
  ELSE "none"

Outcomes == {"ok", "error"}

(***************************************************************************)
(* get_client: InstantlyClient() raises ValueError without an API key; the *)
(* handler's outer except turns it into {error}, 500                       *)
(***************************************************************************)
\* a handler starts: get_client() and, with a client, the position `next`
Enter(name, a, next) ==
  /\ pc = "idle"
  /\ op' = name
  /\ args' = a
  /\ IF api_key_set
     THEN pc' = next /\ result' = NoResult
     ELSE pc' = "done" /\ result' = Raised500("ValueError")
  /\ UNCHANGED <<api_key_set, requests, raised, campaign, drain_vars, upload_vars>>

(***************************************************************************)
(* get_all_campaign_leads, and the rest of the handler that called it      *)
(***************************************************************************)
ListData(s) == [campaign_id |-> CAMPAIGN_ID, skip |-> s, limit |-> PageSize]

\* the response the handler builds from the drained leads
handler_response(leads) ==
  IF op = "stats" THEN stats_response(campaign, leads) ELSE leads_response(args, leads)

\* the value of the handler's call of filter_clinic_leads, <<>> if it makes none
handler_clinic_leads(leads) ==
  IF op = "stats" \/ filter_of(args) \in {"clinics", "other"}
  THEN filter_clinic_leads(leads)
  ELSE <<>>

\* get_all_campaign_leads returns leads and the handler runs to its end
DrainReturn(leads) ==
  /\ pc' = "done"
  /\ clinic_leads' = handler_clinic_leads(leads)
  /\ result' = handler_response(leads)

\* 'items' in response and response['items']
has_items(response) == "items" \in DOMAIN response /\ response.items # <<>>

\* the loop with `<= 100` for `< 100`: it stops after a page of exactly PageSize
drain_continues_strict(items) == ~ (Len(items) <= PageSize)

\* the loop goes round again after a response with these items
drain_continues(items) == ~ (Len(items) < PageSize)

\* one round of the loop: the request succeeds with the body `response`
DrainPage(response) ==
  /\ pc = "drain"
  /\ make_request_raises("POST", "ok") = "none"
  /\ requests' = sent(requests, "POST", "leads/list", ListData(skip))
  /\ raised' = "none"
  /\ pages' = Append(pages, Get(response, "items", <<>>))
  /\ IF has_items(response)
     THEN /\ all_leads' = all_leads \o response.items
          /\ skip' = skip + PageSize
          /\ IF drain_continues(response.items)
             THEN pc' = "drain" /\ UNCHANGED <<clinic_leads, result>>
             ELSE DrainReturn(all_leads')
     ELSE /\ UNCHANGED <<all_leads, skip>>
          /\ DrainReturn(all_leads)
  /\ UNCHANGED <<api_key_set, op, args, campaign, upload_vars>>

\* the loop without its try/except: the error reaches the handler's outer except
DrainErrorEscapes ==
  /\ pc = "drain"
  /\ requests' = sent(requests, "POST", "leads/list", ListData(skip))
  /\ raised' = make_request_raises("POST", "error")
  /\ pc' = "done"
  /\ result' = Raised500(raised')
  /\ UNCHANGED <<api_key_set, op, args, pages, all_leads, skip, campaign, clinic_leads,
                 upload_vars>>

\* one round of the loop: the request raises
DrainError ==
  /\ pc = "drain"
  /\ requests' = sent(requests, "POST", "leads/list", ListData(skip))
  /\ raised' = make_request_raises("POST", "error")
  /\ DrainReturn(all_leads)
  /\ UNCHANGED <<api_key_set, op, args, pages, all_leads, skip, campaign, upload_vars>>

Drain ==
  \/ \E response \in ListResponses(Len(pages)) : DrainPage(response)
  \/ DrainError

(***************************************************************************)
(* campaign_leads                                                          *)
(***************************************************************************)
Absent == "<absent>"
ArgTexts == IntTexts \cup {"x", Absent}
FilterTexts == {"clinics", "other", "all", Absent}

\* request.args with the given page, per_page and filter
QueryArgs(p, pp, f) ==
  LET given == [page |-> p, per_page |-> pp, filter |-> f]
  IN  [k \in {k \in DOMAIN given : given[k] # Absent} |-> given[k]]

BeginLeads ==
  \E p \in ArgTexts, pp \in ArgTexts, f \in FilterTexts :
    /\ ~ args_raise(QueryArgs(p, pp, f)) \/ ~ api_key_set
    /\ Enter("leads", QueryArgs(p, pp, f), "drain")

\* int(request.args.get(...)) raises ValueError
BeginLeadsBadArgs ==
  \E p \in ArgTexts, pp \in ArgTexts, f \in FilterTexts :
    /\ pc = "idle"
    /\ api_key_set
    /\ args_raise(QueryArgs(p, pp, f))
    /\ op' = "leads"
    /\ args' = QueryArgs(p, pp, f)
    /\ pc' = "done"
    /\ result' = Raised500("ValueError")
    /\ UNCHANGED <<api_key_set, requests, raised, campaign, drain_vars, upload_vars>>

(***************************************************************************)
(* campaign_stats                                                          *)
(***************************************************************************)
BeginStats == Enter("stats", <<>>, "fetch_campaign")

CampaignEndpoint == "campaigns/" \o CAMPAIGN_ID

\* the metadata fetch succeeds
FetchCampaign(c) ==
  /\ pc = "fetch_campaign"
  /\ make_request_raises("GET", "ok") = "none"
  /\ requests' = sent(requests, "GET", CampaignEndpoint, <<>>)
  /\ raised' = "none"
  /\ campaign' = c
  /\ pc' = "drain"
  /\ UNCHANGED <<api_key_set, op, args, drain_vars, upload_vars, result>>

\* the metadata fetch raises: the defaults are used
FetchCampaignError ==
  /\ pc = "fetch_campaign"
  /\ requests' = sent(requests, "GET", CampaignEndpoint, <<>>)
  /\ raised' = make_request_raises("GET", "error")
  /\ campaign' = DefaultCampaign
  /\ pc' = "drain"
  /\ UNCHANGED <<api_key_set, op, args, drain_vars, upload_vars, result>>

(***************************************************************************)
(* start_campaign, pause_campaign                                          *)
(***************************************************************************)
mutation_success(name) ==
  [status |-> 200, success |-> TRUE,
   message |-> IF name = "start" THEN "Campaign started successfully"
               ELSE "Campaign paused successfully"]

\* the inner except missing: the failure reaches the outer except
mutation_failure_outer(name, e) == Raised500(e)

mutation_failure(name, e) ==
  [status |-> 400, success |-> FALSE,
   message |-> <<"Could not " \o name \o " campaign via API: ", e>>,
   note |-> "You may need to " \o name
              \o " the campaign manually in the Instantly.ai dashboard."]

\* the whole handler: get_client(), one _make_request("PATCH", ...), the answer
Mutation(name, paused, outcome) ==
  /\ pc = "idle"
  /\ op' = name
  /\ args' = <<>>
  /\ pc' = "done"
  /\ IF ~ api_key_set
     THEN /\ result' = Raised500("ValueError")
          /\ UNCHANGED <<requests, raised>>
     ELSE /\ requests' = sent(requests, "PATCH", CampaignEndpoint, [paused |-> paused])
          /\ raised' = make_request_raises("PATCH", outcome)
          /\ result' = IF raised' = "none" THEN mutation_success(name)
                       ELSE mutation_failure(name, raised')
  /\ UNCHANGED <<api_key_set, campaign, drain_vars, upload_vars>>

start_campaign == \E outcome \in Outcomes : Mutation("start", FALSE, outcome)

pause_campaign == \E outcome \in Outcomes : Mutation("pause", TRUE, outcome)

(***************************************************************************)
(* load_enriched_data and message_preview                                  *)
(***************************************************************************)
\* Python's None, JSON's null, as a value of a field
None == "<None>"

\* ENRICHED_DATA.get(key) of a key that is not there: a record without fields
NoRecord == <<>>

ANN_MIXED == <<"A","n","n","@","x",".","i","o">>
ANN_UPPER == <<"A","N","N","@","X",".","I","O">>
ANN_LOWER == <<"a","n","n","@","x",".","i","o">>
BOB_LOWER == <<"b","o","b","@","x",".","i","o">>
EVE_LOWER == <<"e","v","e","@","x",".","i","o">>

\* the contents of all_wa_leads_enriched.json: records with every field, a
\* record with a title only, records without a usable email, and two
\* records whose emails differ in case only
EnrichedFile ==
  << [email |-> ANN_MIXED, title |-> "Evergreen Wellness", city |-> "Tacoma",
      categoryName |-> "Naturopathic practitioner", totalScore |-> "4.7",
      reviewsCount |-> 12],
     [email |-> BOB_LOWER, title |-> "Bob Clinic"],
     [title |-> "No Mail Clinic", city |-> "Yakima"],
     [email |-> <<>>, title |-> "Empty Mail Clinic"],
     [email |-> ANN_UPPER, title |-> "Evergreen Wellness Center", city |-> "Seattle",
      categoryName |-> "Wellness center", totalScore |-> "4.9", reviewsCount |-> 40] >>

\* lead.get('email')
has_email(lead) == "email" \in DOMAIN lead /\ lead.email # <<>>

\* ENRICHED_DATA after the loop over the file: a later record replaces an
\* earlier one with the same lower-cased email
load_enriched_data(file) ==
  LET indexed == {k \in 1..Len(file) : has_email(file[k])}
      keys == {lower(file[k].email) : k \in indexed}
      last(key) == CHOOSE k \in indexed :
                     /\ lower(file[k].email) = key
                     /\ \A j \in indexed : lower(file[j].email) = key => j <= k
  IN  [key \in keys |-> file[last(key)]]

ENRICHED_DATA == load_enriched_data(EnrichedFile)

\* the email arguments of the preview; <<>> is a missing or empty argument
PreviewEmails == {<<>>, ANN_LOWER, ANN_MIXED, BOB_LOWER, EVE_LOWER}

\* the bodies of the answers to GET campaigns/{id}, with their sequences
PreviewCampaigns ==
  { [name |-> "Spring outreach",
     sequences |-> << [subject |-> "Quick Question", body |-> "Hi {{company_name}}"],
                      [subject |-> "Following up", body |-> "Hi again"] >>],
    [name |-> "Spring outreach", sequences |-> << [body |-> "Hi there"] >>],
    [name |-> "Spring outreach", sequences |-> <<>>],
    [name |-> "Spring outreach"] }

\* ENRICHED_DATA.get(email.lower()) if email else None
enriched_of(email) ==
  IF email # <<>> /\ lower(email) \in DOMAIN ENRICHED_DATA
  THEN ENRICHED_DATA[lower(email)]
  ELSE NoRecord

\* "if enriched": None and an empty record are both false
personalization_of(enriched) ==
  IF DOMAIN enriched # {}
  THEN [company_name |-> Get(enriched, "title", "your practice"),
        city |-> Get(enriched, "city", ""),
        category |-> Get(enriched, "categoryName", "healthcare provider"),
        rating |-> Get(enriched, "totalScore", None),
        review_count |-> Get(enriched, "reviewsCount", 0)]
  ELSE [company_name |-> "{{company_name}}",
        city |-> "{{city}}",
        category |-> "{{category}}",
        rating |-> "{{rating}}",
        review_count |-> "{{review_count}}"]

\* the response of message_preview once the campaign c is fetched
preview_response(email, c) ==
  LET sequences == Get(c, "sequences", <<>>)
  IN  IF sequences = <<>>
      THEN [status |-> 404, error |-> "No email sequences found"]
      ELSE [status |-> 200,
            subject |-> Get(sequences[1], "subject", ""),
            body |-> Get(sequences[1], "body", ""),
            personalization |-> personalization_of(enriched_of(email)),
            sequence_position |-> 1,
            total_sequences |-> Len(sequences)]

\* the whole handler: get_client(), the campaign fetch, the answer
message_preview ==
  \E email \in PreviewEmails, outcome \in Outcomes, c \in PreviewCampaigns :
    /\ pc = "idle"
    /\ op' = "preview"
    /\ args' = [email |-> email]
    /\ pc' = "done"
    /\ IF ~ api_key_set
       THEN /\ result' = Raised500("ValueError")
            /\ UNCHANGED <<requests, raised, campaign>>
       ELSE /\ requests' = sent(requests, "GET", CampaignEndpoint, <<>>)
            /\ raised' = make_request_raises("GET", outcome)
            /\ IF raised' = "none"
               THEN campaign' = c /\ result' = preview_response(email, c)
               ELSE UNCHANGED campaign /\ result' = Raised500(raised')
    /\ UNCHANGED <<api_key_set, drain_vars, upload_vars>>

(***************************************************************************)
(* The uploader script: InstantlyClient(), upload_leads_from_json          *)
(***************************************************************************)
\* the script starts and reads the file, whose contents are `file`
UploadBegin(file, name) ==
  /\ pc = "idle"
  /\ op' = "upload"
  /\ args' = [campaign_name |-> name]
  /\ IF ~ api_key_set
     THEN /\ pc' = "done"
          /\ result' = Uncaught("ValueError")
          /\ UNCHANGED file_leads
     ELSE /\ file_leads' = file
          /\ IF with_emails(file) = <<>>
             THEN pc' = "done" /\ result' = Returned(<<>>)
             ELSE pc' = "get_campaigns" /\ result' = NoResult
  /\ UNCHANGED <<api_key_set, requests, raised, campaign, drain_vars, campaigns,
                 formatted_leads, idx, total_uploaded, failed>>

\* open() or json.load() raises
UploadUnreadable(name) ==
  /\ pc = "idle"
  /\ api_key_set
  /\ op' = "upload"
  /\ args' = [campaign_name |-> name]
  /\ pc' = "done"
  /\ result' = Uncaught("OSError")
  /\ UNCHANGED <<api_key_set, requests, raised, campaign, drain_vars, upload_vars>>

\* the campaign is resolved to c: the leads are formatted and the loop starts
StartUpload(c) ==
  /\ campaign' = c
  /\ formatted_leads' = LET eligible == with_emails(file_leads)
                        IN  [k \in 1..Len(eligible) |-> format_lead_for_instantly(eligible[k])]
  /\ pc' = "add_lead"

\* get_campaigns returns
GetCampaigns(response) ==
  /\ pc = "get_campaigns"
  /\ make_request_raises("GET", "ok") = "none"
  /\ requests' = sent(requests, "GET", "campaigns", <<>>)
  /\ raised' = "none"
  /\ campaigns' = campaigns_of(response)
  /\ LET found == find_campaign(campaigns', args.campaign_name)
     IN  IF found # <<>>
         THEN StartUpload(found)
         ELSE pc' = "create_campaign" /\ UNCHANGED <<campaign, formatted_leads>>
  /\ UNCHANGED <<api_key_set, op, args, drain_vars, file_leads, idx, total_uploaded,
                 failed, result>>

\* get_campaigns raises: the run ends
GetCampaignsError ==
  /\ pc = "get_campaigns"
  /\ requests' = sent(requests, "GET", "campaigns", <<>>)
  /\ raised' = make_request_raises("GET", "error")
  /\ pc' = "done"
  /\ result' = Uncaught(raised')
  /\ UNCHANGED <<api_key_set, op, args, campaign, drain_vars, upload_vars>>

\* the body of POST campaigns (the schedule and the sequence are fixed)
create_data(name) ==
  [name |-> name, daily_limit |-> 50, email_gap |-> 30, random_wait_max |-> 60,
   stop_on_reply |-> TRUE, link_tracking |-> TRUE, open_tracking |-> TRUE]

\* create_campaign returns
CreateCampaign ==
  /\ pc = "create_campaign"
  /\ make_request_raises("POST", "ok") = "none"
  /\ requests' = sent(requests, "POST", "campaigns", create_data(args.campaign_name))
  /\ raised' = "none"
  /\ StartUpload(CreatedCampaign(args.campaign_name))
  /\ UNCHANGED <<api_key_set, op, args, drain_vars, file_leads, campaigns, idx,
                 total_uploaded, failed, result>>

\* create_campaign raises: the run ends
CreateCampaignError ==
  /\ pc = "create_campaign"
  /\ requests' = sent(requests, "POST", "campaigns", create_data(args.campaign_name))
  /\ raised' = make_request_raises("POST", "error")
  /\ pc' = "done"
  /\ result' = Uncaught(raised')
  /\ UNCHANGED <<api_key_set, op, args, campaign, drain_vars, upload_vars>>

\* the loop without its try/except around add_lead: a failure ends the run
AddLeadAborts(outcome) ==
  /\ pc = "add_lead"
  /\ LET k == idx + 1
         lead == put(formatted_leads[k], "campaign_id", campaign.id)
     IN  /\ formatted_leads' = [formatted_leads EXCEPT ![k] = lead]
         /\ requests' = sent(requests, "POST", "leads", lead)
         /\ raised' = make_request_raises("POST", outcome)
         /\ idx' = k
         /\ IF raised' = "none"
            THEN /\ total_uploaded' = total_uploaded + 1
                 /\ IF k = Len(formatted_leads)
                    THEN /\ pc' = "done"
                         /\ result' = Returned(upload_summary(campaign, file_leads,
                                                              total_uploaded'))
                    ELSE /\ pc' = "add_lead"
                         /\ UNCHANGED result
            ELSE /\ pc' = "done"
                 /\ result' = Uncaught(raised')
                 /\ UNCHANGED total_uploaded
         /\ UNCHANGED failed
  /\ UNCHANGED <<api_key_set, op, args, campaign, drain_vars, file_leads, campaigns>>

\* one round of the loop over formatted_leads, and the summary after the last
AddLead(outcome) ==
  /\ pc = "add_lead"
  /\ LET k == idx + 1
         lead == put(formatted_leads[k], "campaign_id", campaign.id)
     IN  /\ formatted_leads' = [formatted_leads EXCEPT ![k] = lead]
         /\ requests' = sent(requests, "POST", "leads", lead)
         /\ raised' = make_request_raises("POST", outcome)
         /\ IF raised' = "none"
            THEN total_uploaded' = total_uploaded + 1 /\ UNCHANGED failed
            ELSE failed' = failed + 1 /\ UNCHANGED total_uploaded
         /\ idx' = k
         /\ IF k = Len(formatted_leads)
            THEN /\ pc' = "done"
                 /\ result' = Returned(upload_summary(campaign, file_leads, total_uploaded'))
            ELSE /\ pc' = "add_lead"
                 /\ UNCHANGED result
  /\ UNCHANGED <<api_key_set, op, args, campaign, drain_vars, file_leads, campaigns>>

upload_leads_from_json ==
  \/ \E file \in Files, name \in CampaignNames : UploadBegin(file, name)
  \/ \E name \in CampaignNames : UploadUnreadable(name)
  \/ \E response \in CampaignsResponses : GetCampaigns(response)
  \/ GetCampaignsError
  \/ CreateCampaign
  \/ CreateCampaignError
  \/ \E outcome \in Outcomes : AddLead(outcome)

(***************************************************************************)
(* The handler has answered; the next request starts from a clean slate    *)
(***************************************************************************)
Finish ==
  /\ pc = "done"
  /\ pc' = "idle"
  /\ op' = "none"
  /\ args' = <<>>
  /\ requests' = <<>>
  /\ raised' = "none"
  /\ pages' = <<>>
  /\ all_leads' = <<>>
  /\ skip' = 0
  /\ campaign' = <<>>
  /\ clinic_leads' = <<>>
  /\ file_leads' = <<>>
  /\ campaigns' = <<>>
  /\ formatted_leads' = <<>>
  /\ idx' = 0
  /\ total_uploaded' = 0
  /\ failed' = 0
  /\ result' = NoResult
  /\ UNCHANGED api_key_set

Next ==
  \/ BeginLeads
  \/ BeginLeadsBadArgs
  \/ BeginStats
  \/ \E c \in CampaignResponses : FetchCampaign(c)
  \/ FetchCampaignError
  \/ Drain
  \/ start_campaign
  \/ pause_campaign
  \/ message_preview
  \/ upload_leads_from_json
  \/ Finish

Spec == Init /\ [][Next]_vars

(***************************************************************************)
(* Vocabulary of the properties                                            *)
(***************************************************************************)
RECURSIVE Concat(_)
\* the in-order concatenation of a sequence of lists
Concat(ps) == IF ps = <<>> THEN <<>> ELSE Head(ps) \o Concat(Tail(ps))

Sizes(ps) == [k \in 1..Len(ps) |-> Len(ps[k])]

IsListRequest(r) == r.endpoint = "leads/list"

\* the requests the drain has sent
ListRequests == SelectSeq(requests, IsListRequest)

\* a handler that drains has been entered with a client and parsed arguments
Draining == op \in {"leads", "stats"} /\ api_key_set /\ ~ args_raise(args)

\* the drain has returned
Drained == Draining /\ pc = "done"

\* the drain has returned because its last request failed
DrainFailed == Drained /\ raised # "none"

\* C1: the k-th request of the drain carries skip = 100 * k (k from 0) and
\* limit = 100; the drain goes on after a response exactly when the response
\* has at least 100 items, so it stops right after the first response with
\* fewer than 100 items or none; the list it has accumulated is at every
\* moment the in-order concatenation of the items of the responses received;
\* pages of sizes 100, 100, 37 give 237 records after exactly 3 requests.
C1_FullDrain ==
  Draining =>
    LET reqs == ListRequests
    IN  /\ \A k \in 1..Len(reqs) :
             /\ reqs[k].method = "POST"
             /\ reqs[k].data = [campaign_id |-> CAMPAIGN_ID,
                                skip |-> 100 * (k - 1), limit |-> 100]
        /\ Len(pages) <= Len(reqs)
        /\ Len(reqs) <= Len(pages) + 1
        /\ \A k \in 1..Len(pages) : k < Len(reqs) => Len(pages[k]) >= 100
        /\ pc = "drain" =>
             /\ Len(reqs) = Len(pages)
             /\ \A k \in 1..Len(pages) : Len(pages[k]) >= 100
        /\ (pc = "done" /\ raised = "none") =>
             /\ Len(reqs) = Len(pages)
             /\ Len(pages) >= 1
             /\ Len(pages[Len(pages)]) < 100
        /\ all_leads = Concat(pages)
        /\ (pc = "done" /\ Sizes(pages) = <<100, 100, ExampleShort>>) =>
             /\ Len(all_leads) = 200 + ExampleShort
             /\ Len(reqs) = 3

\* pages of sizes 100, 100 and 37 have been drained
C1_Witness ==
  /\ Drained
  /\ raised = "none"
  /\ Sizes(pages) = <<100, 100, ExampleShort>>
  /\ Len(all_leads) = 200 + ExampleShort

\* C2: when the n-th request of the drain fails, the failing request is the
\* last one sent, the handler gets exactly the concatenation of the n-1
\* responses received before it, and the error does not reach the handler:
\* the handler answers from those leads.
C2_DrainError ==
  DrainFailed =>
    /\ Len(ListRequests) = Len(pages) + 1
    /\ all_leads = Concat(pages)
    /\ result = handler_response(Concat(pages))
    /\ result.status = 500 => result.error = "ZeroDivisionError"
    /\ clinic_leads = handler_clinic_leads(Concat(pages))

\* the second request of a drain failed after a first page of 100 leads
C2_Witness ==
  /\ DrainFailed
  /\ op = "leads"
  /\ Len(ListRequests) = 2
  /\ Len(all_leads) = 100
  /\ result.status = 200
  /\ result.pagination.total > 0

\* Start or Pause has run to its end with a client
Mutated == pc = "done" /\ op \in {"start", "pause"} /\ api_key_set

\* C3: Start and Pause each send exactly one mutation request for the
\* configured campaign, with paused = false for Start and paused = true
\* for Pause, and answer success: true when the upstream accepts it.
C3_OneMutationRequest ==
  Mutated =>
    /\ Len(requests) = 1
    /\ requests[1].endpoint = CampaignEndpoint
    /\ requests[1].data = [paused |-> (op = "pause")]
    /\ raised = "none" => (result.status = 200 /\ result.success = TRUE)

\* C4: when the mutation call of Start or Pause fails, the handler answers
\* {success: false, message, note} with status 400, never {error} with
\* status 500, and no second upstream call has been made.
C4_MutationFailure ==
  (Mutated /\ raised # "none") =>
    /\ result.status = 400
    /\ DOMAIN result = {"status", "success", "message", "note"}
    /\ result.success = FALSE
    /\ Len(requests) <= 1

\* the mutation call of Start has failed
C4_Witness ==
  /\ Mutated
  /\ op = "start"
  /\ raised # "none"
  /\ result.status = 400

\* the email is present, non-empty and not the sentinel
UsableEmail(l) == "email" \in DOMAIN l /\ l.email \notin {"", "No email"}

\* the lower-cased company name has a configured keyword as a substring
HasKeyword(l) ==
  LET name == lower(IF "company_name" \in DOMAIN l THEN l.company_name ELSE <<>>)
  IN  \E kw \in Range(CLINIC_KEYWORDS) :
        \E a \in 1..(Len(name) - Len(kw) + 1) :
          \A j \in 1..Len(kw) : name[a + j - 1] = kw[j]

\* the positions of ls whose lead the classifier is to keep
MatchingAt(ls) == {k \in 1..Len(ls) : UsableEmail(ls[k]) /\ HasKeyword(ls[k])}

\* out is ls restricted to the positions in keep, in the order of ls
IsRestriction(out, ls, keep) ==
  /\ Len(out) = Cardinality(keep)
  /\ \A k \in keep : out[Cardinality({j \in keep : j <= k})] = ls[k]

\* the handler has called the classifier on the drained leads
Classified == Drained /\ (op = "stats" \/ filter_of(args) \in {"clinics", "other"})

\* C5: the list the classifier returns holds exactly the leads whose email
\* is non-empty and not 'No email' and whose lower-cased company name
\* contains a configured keyword, in input order; no lead without a usable
\* email is in it.
C5_Classifier ==
  Classified =>
    /\ IsRestriction(clinic_leads, all_leads, MatchingAt(all_leads))
    /\ \A j \in 1..Len(clinic_leads) : UsableEmail(clinic_leads[j])

\* the classifier kept some leads and dropped a lead with a keyword and the
\* sentinel email, and a lead with a usable email and no keyword
C5_Witness ==
  /\ Classified
  /\ Len(clinic_leads) >= 1
  /\ \E k \in 1..Len(all_leads) :
       "email" \in DOMAIN all_leads[k] /\ all_leads[k].email = "No email"
         /\ HasKeyword(all_leads[k])
  /\ \E k \in 1..Len(all_leads) : UsableEmail(all_leads[k]) /\ ~ HasKeyword(all_leads[k])

\* the leads listing has answered with a page of a view of the drained leads
Listed == Drained /\ op = "leads" /\ result.status = 200

\* the leads of the view f of the drained leads
View(f) == Range(select_leads(f, all_leads))

\* l has the email of a lead of the set cs
SharesEmail(l, cs) == \E c \in cs : "email" \in DOMAIN l /\ c.email = l.email

\* C6 as stated: every lead with a usable email is in exactly one of the
\* views clinics and other, and a lead without a usable email is in neither.
C6_Partition ==
  Listed =>
    LET clinics == View("clinics")
        other == View("other")
    IN  \A l \in Range(all_leads) :
          IF UsableEmail(l)
          THEN (l \in clinics) # (l \in other)
          ELSE l \notin clinics /\ l \notin other

\* C6, amended: no lead is in both views; a lead with a usable email is in
\* exactly one of them, unless the classifier does not match it and it has
\* the email of a matching lead, and then it is in neither; a lead without
\* a usable email is never in clinics and always in other.  The answer
\* counts the leads of the requested view.
C6_PartitionByEmail ==
  Listed =>
    LET clinics == View("clinics")
        other == View("other")
    IN  /\ result.pagination.total = Len(select_leads(filter_of(args), all_leads))
        /\ \A l \in Range(all_leads) :
             /\ ~ (l \in clinics /\ l \in other)
             /\ UsableEmail(l) =>
                  IF l \notin clinics /\ SharesEmail(l, clinics)
                  THEN l \notin other
                  ELSE (l \in clinics) # (l \in other)
             /\ ~ UsableEmail(l) => (l \notin clinics /\ l \in other)

\* the view other has been listed for leads among which one without a usable
\* email, and a lead the classifier does not match that has the email of a
\* matching lead
C6_Witness ==
  /\ Listed
  /\ filter_of(args) = "other"
  /\ \E l \in Range(all_leads) : ~ UsableEmail(l) /\ l \in View("other")
  /\ \E l \in Range(all_leads) :
       UsableEmail(l) /\ l \notin View("clinics") /\ l \notin View("other")

\* the indices (from 0) of [lo, hi) that exist in a list of n items
ExistingIndices(lo, hi, n) == {k \in 0..(n - 1) : lo <= k /\ k < hi}

\* ceil(t / p), p # 0
Ceil(t, p) == IF p > 0 THEN (t + p - 1) \div p ELSE - (t \div (-p))

\* C7: the items returned are exactly those at the indices of
\* [(page-1)*per_page, page*per_page) that exist in the view, total is the
\* size of the view and pages is ceil(total / per_page), for every page and
\* every per_page (per_page # 0, for the quotient to exist).
C7_DisplayPagination ==
  (Drained /\ op = "leads" /\ per_page_of(args) # 0) =>
    LET view == select_leads(filter_of(args), all_leads)
        page == page_of(args)
        per_page == per_page_of(args)
        ks == ExistingIndices((page - 1) * per_page, page * per_page, Len(view))
    IN  /\ result.status = 200
        /\ Len(result.leads) = Cardinality(ks)
        /\ \A k \in ks :
             result.leads[Cardinality({j \in ks : j <= k})] = display(view[k + 1])
        /\ result.pagination.total = Len(view)
        /\ result.pagination.pages = Ceil(Len(view), per_page)

\* the stats handler has answered
StatsDone == Drained /\ op = "stats"

\* C8: total_leads is the number of drained leads, clinic_leads the number
\* of classifier matches, other_leads their difference, active_leads the
\* matches with status 1, pending_leads the matches with status 0, and the
\* request succeeds, with the default campaign when the metadata fetch failed.
C8_Stats ==
  StatsDone =>
    LET m == MatchingAt(all_leads)
        with(st) == {k \in m : "status" \in DOMAIN all_leads[k] /\ all_leads[k].status = st}
    IN  /\ result.status = 200
        /\ result.stats = [total_leads |-> Len(all_leads),
                           clinic_leads |-> Cardinality(m),
                           other_leads |-> Len(all_leads) - Cardinality(m),
                           active_leads |-> Cardinality(with(1)),
                           pending_leads |-> Cardinality(with(0))]
        /\ campaign = DefaultCampaign =>
             result.campaign = [name |-> "WA Integrative Medicine", id |-> CAMPAIGN_ID,
                                status |-> "Paused", daily_limit |-> 50]

\* stats have been reported after a failed metadata fetch, for leads among
\* which active and pending matches, and leads with a status that do not match
C8_Witness ==
  /\ StatsDone
  /\ campaign = DefaultCampaign
  /\ result.stats.active_leads >= 1
  /\ result.stats.pending_leads >= 1
  /\ result.stats.other_leads >= 1
  /\ \E k \in 1..Len(all_leads) :
       k \notin MatchingAt(all_leads) /\ "status" \in DOMAIN all_leads[k]

IsAddLead(r) == r.endpoint = "leads"

\* the lead submissions sent so far
Submissions == SelectSeq(requests, IsAddLead)

\* the uploader has resolved the campaign
Resolved == op = "upload" /\ pc \in {"add_lead", "done"} /\ campaign # <<>>

\* the positions of the file's records with a non-empty primary email
EligibleAt(file) ==
  {k \in 1..Len(file) : "primary_email" \in DOMAIN file[k] /\ file[k].primary_email # ""}

\* C9: once the campaign is resolved, the submissions sent are, in input
\* order and one each, those of the first eligible records of the file; each
\* is counted as uploaded or as failed; at the end every eligible record has
\* been submitted, whichever submissions failed, and uploaded + failed is
\* the number of eligible records.
C9_Uploader ==
  Resolved =>
    LET e == EligibleAt(file_leads)
        subs == Submissions
    IN  /\ Len(subs) = idx
        /\ total_uploaded + failed = idx
        /\ Len(subs) <= Cardinality(e)
        /\ \A k \in e :
             LET n == Cardinality({j \in e : j <= k})
             IN  n <= Len(subs) =>
                   /\ subs[n].method = "POST"
                   /\ subs[n].data.email = file_leads[k].primary_email
        /\ pc = "done" =>
             /\ Len(subs) = Cardinality(e)
             /\ total_uploaded + failed = Cardinality(e)
             /\ "returned" \in DOMAIN result

\* a run has ended in which a submission failed and a later one succeeded,
\* for a file with a record that is not eligible
C9_Witness ==
  /\ Resolved
  /\ pc = "done"
  /\ failed >= 1
  /\ total_uploaded >= 1
  /\ raised = "none"
  /\ Len(file_leads) > Cardinality(EligibleAt(file_leads))

\* the uploader has returned a summary
Summarised ==
  /\ op = "upload"
  /\ pc = "done"
  /\ "returned" \in DOMAIN result
  /\ result.returned # <<>>

\* s is the rate u / e as a percentage with one decimal: the tenths of a
\* percent nearest to it
IsRate(s, u, e) ==
  \E t \in 0..1000 :
    /\ s = ToString(t \div 10) \o "." \o ToString(t % 10) \o "%"
    /\ 2 * (t * e - 1000 * u) <= e
    /\ 2 * (1000 * u - t * e) <= e

\* C10 as stated: the summary reports the uploaded count, the number of
\* eligible records and the rate uploaded / eligible as a percentage string.
C10_Summary ==
  Summarised =>
    LET e == Cardinality(EligibleAt(file_leads))
    IN  /\ result.returned.uploaded = total_uploaded
        /\ result.returned.total_leads = e
        /\ IsRate(result.returned.success_rate, total_uploaded, e)

\* C10, amended: the summary reports the uploaded count, the number of
\* records read from the file, eligible or not, and the rate
\* uploaded / eligible as a percentage string with one decimal.
C10_SummaryOfFile ==
  Summarised =>
    LET e == Cardinality(EligibleAt(file_leads))
    IN  /\ e >= 1
        /\ result.returned.uploaded = total_uploaded
        /\ result.returned.total_leads = Len(file_leads)
        /\ IsRate(result.returned.success_rate, total_uploaded, e)
        /\ result.returned.campaign = campaign

\* a summary has been returned for a file with a record that is not
\* eligible, some of whose eligible records were uploaded and some not
C10_Witness ==
  /\ Summarised
  /\ Len(file_leads) > Cardinality(EligibleAt(file_leads))
  /\ total_uploaded >= 1
  /\ failed >= 1
  /\ result.returned.success_rate = "50.0%"

IsCreate(r) == r.method = "POST" /\ r.endpoint = "campaigns"

\* the create-campaign requests sent so far
Creates == SelectSeq(requests, IsCreate)

\* the uploader has received the list of the upstream's campaigns
Listing ==
  /\ op = "upload"
  /\ Len(requests) >= 1
  /\ ~ (Len(requests) = 1 /\ raised # "none")

\* the upstream's campaigns whose name is exactly the requested one
Namesakes ==
  {c \in Range(campaigns) : "name" \in DOMAIN c /\ c.name = args.campaign_name}

\* the run has ended because listing or creating the campaign failed
ResolutionFailed ==
  /\ op = "upload"
  /\ pc = "done"
  /\ raised # "none"
  /\ requests[Len(requests)].endpoint = "campaigns"

\* C12: once the upstream's campaigns are listed, a create-campaign request
\* is sent exactly when none of them has exactly the requested name; it is
\* sent at most once, right after the listing and before any lead
\* submission; every submission carries the id of the resolved campaign, a
\* listed campaign of that name or the created one; when listing or creating
\* fails, the run ends with an uncaught error and no lead submitted.
C12_Resolution ==
  op = "upload" =>
    /\ Len(Creates) <= 1
    /\ Len(Creates) = 1 =>
         /\ Listing
         /\ IsCreate(requests[2])
         /\ requests[2].data.name = args.campaign_name
    /\ \A k \in 1..Len(requests) : IsAddLead(requests[k]) => k >= 2 /\ ~ IsCreate(requests[k])
    /\ (Listing /\ pc = "create_campaign") => (Namesakes = {} /\ Creates = <<>>)
    /\ (Listing /\ pc \in {"add_lead", "done"}) => (Len(Creates) = 1 <=> Namesakes = {})
    /\ ~ Listing => Creates = <<>>
    /\ \A k \in 1..Len(Submissions) :
         /\ "campaign_id" \in DOMAIN Submissions[k].data
         /\ Submissions[k].data.campaign_id = campaign.id
         /\ IF Creates = <<>>
            THEN campaign \in Namesakes
            ELSE campaign = [name |-> args.campaign_name, id |-> "id-new"]
    /\ ResolutionFailed =>
         /\ Submissions = <<>>
         /\ "uncaught" \in DOMAIN result

\* a run has ended that created the campaign, the upstream listing one whose
\* name differs in case only, and submitted a lead to the created campaign
C12_Witness ==
  /\ op = "upload"
  /\ pc = "done"
  /\ campaigns # <<>>
  /\ Namesakes = {}
  /\ Len(Creates) = 1
  /\ Len(Submissions) >= 1
  /\ Submissions[1].data.campaign_id = "id-new"

\* the message preview has answered with a personalization set
Previewed == pc = "done" /\ op = "preview" /\ result.status = 200

\* the records of the enrichment file for the given email, compared lower-cased
EnrichmentRecords ==
  {r \in Range(EnrichedFile) :
     /\ "email" \in DOMAIN r
     /\ r.email # <<>>
     /\ lower(r.email) = lower(args.email)}

\* the entries of the personalization set and the fields they come from
EntryField ==
  [company_name |-> "title", city |-> "city", category |-> "categoryName",
   rating |-> "totalScore", review_count |-> "reviewsCount"]

\* C11: when there is enrichment data for the given email, looked up
\* lower-cased, every entry of the personalization set is a concrete value
\* taken from an enrichment record of that email; when there is none, every
\* entry is its placeholder token '{{name}}'.
C11_Preview ==
  Previewed =>
    LET p == result.personalization
    IN  /\ DOMAIN p = DOMAIN EntryField
        /\ IF EnrichmentRecords # {}
           THEN \E r \in EnrichmentRecords :
                  \A e \in DOMAIN EntryField :
                    /\ EntryField[e] \in DOMAIN r
                    /\ p[e] = r[EntryField[e]]
           ELSE p = [company_name |-> "{{company_name}}", city |-> "{{city}}",
                     category |-> "{{category}}", rating |-> "{{rating}}",
                     review_count |-> "{{review_count}}"]

====
